---------------------------- MODULE Spec2Model ----------------------------
(***************************************************************************)
(* The clone-and-import pipeline of src/main.py (clone_repo) as a state    *)
(* machine: the projects and files tables, the scratch directories         *)
(* /tmp/coframe_<id>, one SQLAlchemy session per request, and the          *)
(* os.walk traversal with its filters.                                     *)
(*                                                                         *)
(* Strings the code computes on (directory names, file names, paths) are   *)
(* sequences of one-character strings, so that `in`, suffix and lower()    *)
(* are computed, not assumed.                                              *)
(***************************************************************************)
EXTENDS Integers, Sequences, FiniteSets, TLC

(***************************************************************************)
(* Bounds of the model.                                                    *)
(***************************************************************************)
\* Number of ordinary files of the large remote repository.
BulkFiles == 101
\* Number of clone_repo requests served in one behaviour.
MaxCalls == 2

(***************************************************************************)
(* Program constants.                                                      *)
(***************************************************************************)
\* main.py:214  if files_imported % 50 == 0
BATCH_SIZE == 50
\* main.py:160  if file_size > 1_000_000
SIZE_CEILING == 1000000

(***************************************************************************)
(* Strings as character sequences.                                         *)
(***************************************************************************)
DigitChar == <<"0", "1", "2", "3", "4", "5", "6", "7", "8", "9">>

RECURSIVE Digits(_)
\* str(n) of an f-string: the decimal digits of n
Digits(n) == IF n < 10 THEN <<DigitChar[n + 1]>>
             ELSE Digits(n \div 10) \o <<DigitChar[(n % 10) + 1]>>

\* sub in s  (Python's substring test on str)
Contains(s, sub) ==
    \E i \in 1..(Len(s) - Len(sub) + 1) : SubSeq(s, i, i + Len(sub) - 1) = sub

RECURSIVE JoinPath(_)
\* os.path.join of a non-empty list of components
JoinPath(parts) ==
    IF Len(parts) = 1 THEN parts[1]
    ELSE parts[1] \o <<"/">> \o JoinPath(Tail(parts))

UpperToLower ==
    [c \in {"A","B","C","D","E","F","G","H","I","J","K","L","M",
            "N","O","P","Q","R","S","T","U","V","W","X","Y","Z"} |->
       CASE c = "A" -> "a" [] c = "B" -> "b" [] c = "C" -> "c" [] c = "D" -> "d"
         [] c = "E" -> "e" [] c = "F" -> "f" [] c = "G" -> "g" [] c = "H" -> "h"
         [] c = "I" -> "i" [] c = "J" -> "j" [] c = "K" -> "k" [] c = "L" -> "l"
         [] c = "M" -> "m" [] c = "N" -> "n" [] c = "O" -> "o" [] c = "P" -> "p"
         [] c = "Q" -> "q" [] c = "R" -> "r" [] c = "S" -> "s" [] c = "T" -> "t"
         [] c = "U" -> "u" [] c = "V" -> "v" [] c = "W" -> "w" [] c = "X" -> "x"
         [] c = "Y" -> "y" [] c = "Z" -> "z"]

\* str.lower()
Lower(s) == [i \in 1..Len(s) |->
               IF s[i] \in DOMAIN UpperToLower THEN UpperToLower[s[i]] ELSE s[i]]

\* str.rfind('.') as a 1-based position, 0 when there is no dot
LastDot(s) ==
    IF \E i \in 1..Len(s) : s[i] = "."
    THEN CHOOSE i \in 1..Len(s) :
            s[i] = "." /\ \A j \in (i + 1)..Len(s) : s[j] # "."
    ELSE 0

\* pathlib's Path(name).suffix: from the last dot, unless the dot leads or
\* ends the name
Suffix(name) ==
    LET i == LastDot(name)
    IN  IF 1 < i /\ i < Len(name) THEN SubSeq(name, i, Len(name)) ELSE <<>>

(***************************************************************************)
(* Classifier: main.py:174-201.                                            *)
(***************************************************************************)
language_map ==
    { << <<".","j","s">>, "javascript" >>,
      << <<".","j","s","x">>, "javascript" >>,
      << <<".","t","s">>, "typescript" >>,
      << <<".","t","s","x">>, "typescript" >>,
      << <<".","p","y">>, "python" >>,
      << <<".","h","t","m","l">>, "html" >>,
      << <<".","c","s","s">>, "css" >>,
      << <<".","s","c","s","s">>, "scss" >>,
      << <<".","j","s","o","n">>, "json" >>,
      << <<".","m","d">>, "markdown" >>,
      << <<".","t","x","t">>, "plaintext" >>,
      << <<".","s","h">>, "shell" >>,
      << <<".","b","a","s","h">>, "shell" >>,
      << <<".","y","m","l">>, "yaml" >>,
      << <<".","y","a","m","l">>, "yaml" >>,
      << <<".","x","m","l">>, "xml" >>,
      << <<".","s","q","l">>, "sql" >>,
      << <<".","g","o">>, "go" >>,
      << <<".","r","s">>, "rust" >>,
      << <<".","j","a","v","a">>, "java" >>,
      << <<".","c">>, "c" >>,
      << <<".","c","p","p">>, "cpp" >>,
      << <<".","h">>, "c" >>,
      << <<".","h","p","p">>, "cpp" >>
    }

\* A lookup of the suffix as written, without lower().
ClassifyCaseSensitive(name) ==
    LET ext == Suffix(name)
    IN  IF \E e \in language_map : e[1] = ext
        THEN (CHOOSE e \in language_map : e[1] = ext)[2]
        ELSE "plaintext"

\* language_map.get(Path(file_name).suffix.lower(), 'plaintext')
Classify(name) ==
    LET ext == Lower(Suffix(name))
    IN  IF \E e \in language_map : e[1] = ext
        THEN (CHOOSE e \in language_map : e[1] = ext)[2]
        ELSE "plaintext"

(***************************************************************************)
(* Filter policy: main.py:147 and main.py:151.                             *)
(***************************************************************************)
DOT_GIT == <<".","g","i","t">>

Denylist ==
    { DOT_GIT,
      <<"n","o","d","e","_","m","o","d","u","l","e","s">>,
      <<"_","_","p","y","c","a","c","h","e","_","_">>,
      <<".","n","e","x","t">>,
      <<"d","i","s","t">>,
      <<"b","u","i","l","d">>,
      <<".","v","e","n","v">>,
      <<"v","e","n","v">> }

\* A denylist that forgets the virtual-environment directory "venv".
ShouldDescendNoVenv(d) == d \notin (Denylist \ {<<"v","e","n","v">>})

\* main.py:151  d not in ['.git', 'node_modules', ...]
ShouldDescend(d) == d \notin Denylist

\* main.py:147  '.git' in root, on the path string os.walk yields
RootSkipped(root) == Contains(root, DOT_GIT)


(***************************************************************************)
(* The remote repositories.  A file of a working tree is a record          *)
(*   dir      the directory names from the root of the tree                *)
(*   name     the file name                                                *)
(*   size     os.path.getsize                                              *)
(*   kind     "text" (decodes as UTF-8), "binary" (open succeeds, read     *)
(*            raises UnicodeDecodeError), "dangling" (getsize raises) or   *)
(*            "unreadable" (open raises another exception)                 *)
(*   content  what f.read() returns for a text file                        *)
(***************************************************************************)
F(dir, name, size, kind, content) ==
    [dir |-> dir, name |-> name, size |-> size, kind |-> kind, content |-> content]

D_github  == <<".","g","i","t","h","u","b">>
D_src     == <<"s","r","c">>
D_nodemod == <<"n","o","d","e","_","m","o","d","u","l","e","s">>
D_rebuild == <<"r","e","b","u","i","l","d">>
D_venv    == <<"v","e","n","v">>

\* A small working tree with one file for every case of the filters.
RepoTree ==
    << F(<<>>, <<"a",".","p","y">>, 500, "text", "a1"),
       F(<<>>, <<"b",".","p","n","g">>, 2000000, "binary", "bin"),
       F(<<>>, <<"c",".","b","i","n">>, 10, "binary", "bin"),
       F(<<DOT_GIT>>, <<"c","o","n","f","i","g">>, 90, "text", "cfg"),
       F(<<D_github, <<"w","f">> >>, <<"c","i",".","y","m","l">>, 80, "text", "ci"),
       F(<<D_github, D_nodemod>>, <<"y",".","j","s">>, 70, "text", "y"),
       F(<<D_src>>, <<"m",".","P","Y">>, 60, "text", "m1"),
       F(<<D_src>>, <<"e",".","t","x","t">>, SIZE_CEILING, "text", "e1"),
       F(<<D_src>>, <<"o",".","t","x","t">>, SIZE_CEILING + 1, "text", "o1"),
       F(<<D_src, D_nodemod>>, <<"x",".","j","s">>, 50, "text", "x"),
       F(<<D_src, <<"l","i","b">>, D_venv>>, <<"z",".","p","y">>, 40, "text", "z"),
       F(<<D_rebuild>>, <<"r",".","m","d">>, 30, "text", "r1"),
       F(<<>>, <<".","g","i","t","i","g","n","o","r","e">>, 20, "text", "gi"),
       F(<<>>, <<"l","n","k">>, 0, "dangling", "none"),
       F(<<>>, <<"k","e","y">>, 15, "unreadable", "none") >>

\* A large working tree of ordinary source files f1.py, f2.py, ...
RepoBig ==
    [i \in 1..BulkFiles |->
        F(<<>>, <<"f">> \o Digits(i) \o <<".","p","y">>, 100, "text", "b1")]

\* A working tree of two files: a source file, and a file in a subdirectory
\* that does not decode.
RepoPair ==
    << F(<<>>, <<"a",".","p","y">>, 500, "text", "a1"),
       F(<<D_src>>, <<"c",".","b","i","n">>, 10, "binary", "bin") >>

Urls == {"tree", "big", "pair"}

\* What git.Repo.clone_from(url, clone_path) leaves in clone_path on success.
Remote ==
    [u \in Urls |-> IF u = "tree" THEN RepoTree
                    ELSE IF u = "big" THEN RepoBig ELSE RepoPair]

(***************************************************************************)
(* Paths.                                                                  *)
(***************************************************************************)
\* main.py:112  clone_path = f"/tmp/coframe_{project_id}"
ClonePath(project_id) ==
    <<"/","t","m","p","/","c","o","f","r","a","m","e","_">> \o Digits(project_id)

\* The root os.walk yields for the directory `dir` of the tree.
RootOf(project_id, dir) == JoinPath(<<ClonePath(project_id)>> \o dir)

\* main.py:154-155  os.path.relpath(os.path.join(root, file_name), clone_path)
RelativePath(f) == JoinPath(f.dir \o <<f.name>>)

IsPrefix(s, t) == Len(s) <= Len(t) /\ SubSeq(t, 1, Len(s)) = s

RECURSIVE SetToSeq(_)
\* The entries of a directory in the (unspecified but fixed) order of listdir.
SetToSeq(S) ==
    IF S = {} THEN <<>>
    ELSE LET x == CHOOSE x \in S : TRUE IN <<x>> \o SetToSeq(S \ {x})

\* The `dirs` os.walk yields for `dir`: the names of its sub-directories.
SubDirs(tree, dir) ==
    SetToSeq({ tree[i].dir[Len(dir) + 1] :
                 i \in {j \in 1..Len(tree) :
                          IsPrefix(dir, tree[j].dir) /\ Len(tree[j].dir) > Len(dir)} })

RECURSIVE IndexSeq(_, _)
IndexSeq(S, n) ==
    IF n = 0 THEN <<>>
    ELSE IndexSeq(S, n - 1) \o (IF n \in S THEN <<n>> ELSE <<>>)

\* The `files` os.walk yields for `dir`, as indices into the tree.
FilesIn(tree, dir) ==
    IndexSeq({i \in 1..Len(tree) : tree[i].dir = dir}, Len(tree))

\* main.py:151  dirs[:] = [d for d in dirs if d not in [...]]
Prune(dirs) == SelectSeq(dirs, ShouldDescend)

(***************************************************************************)
(* State.                                                                  *)
(***************************************************************************)
VARIABLES
    gitInstalled,   \* main.py:16-20  whether `import git` succeeded
    repo_url,       \* projects table: id -> repo_url ("null" when unset)
    rows,           \* files table: the committed File rows
    nextId,         \* files.id sequence: the last id handed out
    scratch,        \* project id -> state of /tmp/coframe_<id>
    loc,            \* request -> the locals of its clone_repo call
    hist,           \* request -> what the call has done so far (history)
    calls,          \* number of calls started
    last,           \* the last call that returned (history)
    file_name,      \* main.py:173  a name handed to the classifier
    language        \* main.py:201  the label it got ("none" before)

vars == <<gitInstalled, repo_url, rows, nextId, scratch, loc, hist, calls, last,
          file_name, language>>

\* Requests in flight at most.
Procs == {1, 2}
\* Ids of the rows of the projects table.
ProjectIds == {1, 2}
\* An id that names no project.
MissingId == 3
\* Ids a request names here: a project and the id that names none.
RequestIds == {1, MissingId}

Absent == [st |-> "absent", url |-> "none"]

\* No field changes.
None == [k \in {} |-> TRUE]

\* r with the fields of `changes` replaced
Upd(r, changes) ==
    [k \in DOMAIN r |-> IF k \in DOMAIN changes THEN changes[k] ELSE r[k]]

IdleLoc ==
    [pc |-> "idle", project_id |-> 0, url |-> "none", result |-> "none",
     files_imported |-> 0, files_skipped |-> 0,
     todo |-> <<>>, cur |-> <<>>,
     pending |-> <<>>, session_ok |-> TRUE]

NoHist ==
    [preRows |-> {}, preUrl |-> <<>>, preNextId |-> 0, preScratch |-> <<>>,
     acts |-> {}, evals |-> <<>>, reads |-> {}, commits |-> <<>>,
     imported |-> <<>>, skipped |-> <<>>,
     batches |-> <<>>, failedAt |-> 0, failedSet |-> {}, addsAfterFail |-> 0,
     maxPending |-> 0, cloned |-> FALSE, rmFailed |-> FALSE,
     removedLive |-> FALSE, deletedWhile |-> {}, urlFailed |-> FALSE]

\* main.py:259-269  a File row of project 2 that create_file stored before
\* the first import: the database outlives the process
ManualFile ==
    [id |-> 1, project_id |-> 2, path |-> <<"n",".","m","d">>,
     content |-> "new", language |-> "null"]

NoLast == [project_id |-> 0, url |-> "none", result |-> "none", files |-> {}]

Init ==
    /\ gitInstalled \in BOOLEAN
    /\ repo_url = [i \in ProjectIds |-> "null"]
    /\ rows = {ManualFile}
    /\ nextId = 1
    /\ scratch = [i \in ProjectIds \cup {MissingId} |-> Absent]
    /\ loc = [p \in Procs |-> IdleLoc]
    /\ hist = [p \in Procs |-> NoHist]
    /\ calls = 0
    /\ last = NoLast
    /\ file_name = <<>>
    /\ language = "none"

\* The working tree request p walks: what is in its clone_path.
Tree(p) == Remote[scratch[loc[p].project_id].url]

\* What a listdir, getsize or open under request p's clone_path can meet:
\* the entry when the directory is whole, an error when it is gone, either
\* when a removal or a clone left part of it.
CanSee(p) == scratch[loc[p].project_id].st \in {"full", "partial"}
CanMiss(p) == scratch[loc[p].project_id].st \in {"absent", "partial"}

\* The other requests in flight for the project of p whose pc is in pcs.
Rivals(p, pcs) ==
    {q \in DOMAIN loc \ {p} : /\ loc[q].project_id = loc[p].project_id
                              /\ loc[q].pc \in pcs}

\* The File rows of a project, without their ids.
FilesOf(rs, project_id) ==
    { [path |-> r.path, content |-> r.content, language |-> r.language] :
        r \in {x \in rs : x.project_id = project_id} }

\* A delete that removes nothing.
RowsAfterDeleteNothing(rs, project_id) == rs

\* A delete without the filter on the project.
RowsAfterDeleteEverything(rs, project_id) == {}

\* main.py:134  db.query(File).filter(File.project_id == project_id).delete()
RowsAfterDelete(rs, project_id) == {r \in rs : r.project_id # project_id}

\* A clone failure handler that has already cleared the project's rows.
RowsAfterCloneFailureCleared(rs, project_id) ==
    {r \in rs : r.project_id # project_id}

\* main.py:127-130  the rows after a failed clone: no database call is made
RowsAfterCloneFailure(rs, project_id) == rs

\* A failure handler that rolls the whole import back.
RowsAfterFailedCommitAllGone(rs, project_id) ==
    {r \in rs : r.project_id # project_id}

\* main.py:222-225, 231-233  the rows after a commit that raised: the open
\* transaction is lost, committed batches stay
RowsAfterFailedCommit(rs, project_id) == rs

\* The field changes of a and of b, b's where both name a field.
Both(a, b) == b @@ a

Step(p, locChanges, histChanges) ==
    /\ loc' = [loc EXCEPT ![p] = Upd(@, locChanges)]
    /\ hist' = [hist EXCEPT ![p] = Upd(@, histChanges)]

(***************************************************************************)
(* clone_repo, main.py:98-253, one action per step that touches the        *)
(* library check, the database, the file system or the network.            *)
(***************************************************************************)
\* POST /projects/{project_id}/clone arrives; requests are served one at a
\* time.
Start(p, project_id, url) ==
    /\ calls < MaxCalls
    /\ \A q \in Procs : loc[q].pc = "idle"
    /\ p = 1
    /\ calls' = calls + 1
    /\ loc' = [loc EXCEPT ![p] =
                  Upd(IdleLoc, [pc |-> "check_git", project_id |-> project_id,
                                url |-> url])]
    /\ hist' = [hist EXCEPT ![p] =
                  Upd(NoHist, [preRows |-> rows, preUrl |-> repo_url,
                               preNextId |-> nextId, preScratch |-> scratch])]
    /\ UNCHANGED <<gitInstalled, repo_url, rows, nextId, scratch, last, file_name,
                   language>>

\* A lookup that finds a project for every id a request names.
ProjectExistsAlways(project_id) == project_id \in RequestIds

\* main.py:107  db.query(Project).filter(Project.id == project_id).first()
\* finds a row
ProjectExists(project_id) == project_id \in DOMAIN repo_url

\* main.py:103-104
CheckGit(p) ==
    /\ loc[p].pc = "check_git"
    /\ IF gitInstalled
       THEN Step(p, [pc |-> "find_project"], None)
       ELSE Step(p, [pc |-> "done", result |-> "error_no_git"], None)
    /\ UNCHANGED <<gitInstalled, repo_url, rows, nextId, scratch, calls, last, file_name, language>>

\* main.py:107-109
FindProject(p) ==
    /\ loc[p].pc = "find_project"
    /\ IF ProjectExists(loc[p].project_id)
       THEN Step(p, [pc |-> "remove_stale"], [acts |-> hist[p].acts \cup {"query"}])
       ELSE Step(p, [pc |-> "done", result |-> "error_not_found"],
                    [acts |-> hist[p].acts \cup {"query"}])
    /\ UNCHANGED <<gitInstalled, repo_url, rows, nextId, scratch, calls, last, file_name, language>>

\* main.py:115  os.path.exists(clone_path) is False
NoStaleClone(p) ==
    /\ loc[p].pc = "remove_stale"
    /\ scratch[loc[p].project_id].st = "absent"
    /\ Step(p, [pc |-> "clone"], [acts |-> hist[p].acts \cup {"exists"}])
    /\ UNCHANGED <<gitInstalled, repo_url, rows, nextId, scratch, calls, last, file_name, language>>

\* main.py:115-118  the stale clone is removed
RemoveStaleOk(p) ==
    /\ loc[p].pc = "remove_stale"
    /\ scratch[loc[p].project_id].st # "absent"
    /\ scratch' = [scratch EXCEPT ![loc[p].project_id] = Absent]
    /\ Step(p, [pc |-> "clone"],
               [acts |-> hist[p].acts \cup {"exists", "rmtree"},
                removedLive |-> Rivals(p, {"walk"}) # {}])
    /\ UNCHANGED <<gitInstalled, repo_url, rows, nextId, calls, last, file_name, language>>

\* A handler that notes the failure and goes on to the clone.
StaleRemovalIgnored == [pc |-> "clone"]

\* main.py:119-120  return {"error": "Failed to clean up old clone: ..."}
StaleRemovalFailed == [pc |-> "done", result |-> "error_cleanup"]

\* main.py:119-120  shutil.rmtree raises: part of the tree may be gone
RemoveStaleFail(p) ==
    /\ loc[p].pc = "remove_stale"
    /\ scratch[loc[p].project_id].st # "absent"
    /\ scratch' = [scratch EXCEPT ![loc[p].project_id].st = "partial"]
    /\ Step(p, StaleRemovalFailed,
               [acts |-> hist[p].acts \cup {"exists", "rmtree"}])
    /\ UNCHANGED <<gitInstalled, repo_url, rows, nextId, calls, last, file_name, language>>

\* main.py:123-126  the clone succeeds
CloneOk(p) ==
    /\ loc[p].pc = "clone"
    /\ scratch[loc[p].project_id].st = "absent"
    /\ scratch' = [scratch EXCEPT ![loc[p].project_id] =
                      [st |-> "full", url |-> loc[p].url]]
    /\ Step(p, [pc |-> "delete_existing"],
               [acts |-> hist[p].acts \cup {"clone"}, cloned |-> TRUE])
    /\ UNCHANGED <<gitInstalled, repo_url, rows, nextId, calls, last, file_name, language>>

\* main.py:127-130  clone_from raises; git has either removed what it had
\* created or (killed, disk full) left part of it behind
CloneFail(p, left) ==
    /\ loc[p].pc = "clone"
    /\ scratch[loc[p].project_id].st = "absent"
    /\ scratch' = [scratch EXCEPT ![loc[p].project_id] =
                      IF left THEN [st |-> "partial", url |-> loc[p].url]
                      ELSE Absent]
    /\ rows' = RowsAfterCloneFailure(rows, loc[p].project_id)
    /\ Step(p, [pc |-> "done", result |-> "error_clone"],
               [acts |-> hist[p].acts \cup {"clone"}])
    /\ UNCHANGED <<gitInstalled, repo_url, nextId, calls, last, file_name, language>>

\* main.py:125-130  clone_path has come into being since the check at 115:
\* git refuses a destination that exists and is not empty, and leaves it
CloneOntoExisting(p) ==
    /\ loc[p].pc = "clone"
    /\ scratch[loc[p].project_id].st # "absent"
    /\ rows' = RowsAfterCloneFailure(rows, loc[p].project_id)
    /\ Step(p, [pc |-> "done", result |-> "error_clone"],
               [acts |-> hist[p].acts \cup {"clone"}])
    /\ UNCHANGED <<gitInstalled, repo_url, nextId, scratch, calls, last, file_name, language>>

(***************************************************************************)
(* The session (database.py:7-8, one per request through get_db) and the   *)
(* files table.                                                            *)
(*                                                                         *)
(* db.add puts a record in the session's pending set and never raises.     *)
(* db.commit either stores every pending record in one transaction or      *)
(* raises and stores none.  When it raises, the records it was to store     *)
(* leave the pending set and the session's transaction stays inactive:      *)
(* every later db.commit raises too, without reaching the store, until      *)
(* db.rollback() is called (main.py:138, 232), which drops what is pending. *)
(* loc[p].session_ok is FALSE while the session is in that condition.       *)
(***************************************************************************)
\* models.py:18-24 with main.py:204-209: the File the import stages
StagedFile(project_id, f) ==
    [project_id |-> project_id, path |-> RelativePath(f),
     content |-> f.content, language |-> Classify(f.name)]

\* A commit that stores all but the last of the staged records.
NewRowsButLast(pending, base) ==
    { [id |-> base + i, project_id |-> pending[i].project_id,
       path |-> pending[i].path, content |-> pending[i].content,
       language |-> pending[i].language] : i \in 1..(Len(pending) - 1) }

\* The rows a successful commit inserts for the staged records, ids taken
\* from the files.id sequence.
NewRows(pending, base) ==
    { [id |-> base + i, project_id |-> pending[i].project_id,
       path |-> pending[i].path, content |-> pending[i].content,
       language |-> pending[i].language] : i \in 1..Len(pending) }

Max(a, b) == IF a >= b THEN a ELSE b

PathsOf(pending) == {pending[i].path : i \in 1..Len(pending)}

\* main.py:133-136
DeleteExistingOk(p) ==
    /\ loc[p].pc = "delete_existing"
    /\ rows' = RowsAfterDelete(rows, loc[p].project_id)
    /\ Step(p, [pc |-> "walk", todo |-> << <<>> >>, cur |-> <<>>],
               [acts |-> hist[p].acts \cup {"delete"},
                deletedWhile |-> Rivals(p, {"walk", "final_commit"})])
    /\ UNCHANGED <<gitInstalled, repo_url, nextId, scratch, calls, last, file_name, language>>

\* main.py:137-139  the delete or its commit raises
DeleteExistingFail(p) ==
    /\ loc[p].pc = "delete_existing"
    /\ Step(p, [pc |-> "done", result |-> "error_clear"],
               [acts |-> hist[p].acts \cup {"delete"}])
    /\ UNCHANGED <<gitInstalled, repo_url, rows, nextId, scratch, calls, last, file_name, language>>

\* main.py:145-151  os.walk yields the next directory, top-down
WalkDir(p) ==
    /\ loc[p].pc = "walk"
    /\ loc[p].cur = <<>>
    /\ loc[p].todo # <<>>
    /\ CanSee(p)
    /\ LET dir  == Head(loc[p].todo)
           subs == SubDirs(Tree(p), dir)
           kept == IF RootSkipped(RootOf(loc[p].project_id, dir))
                   THEN subs
                   ELSE Prune(subs)
           down == [i \in 1..Len(kept) |-> dir \o <<kept[i]>>]
       IN  Step(p, [todo |-> down \o Tail(loc[p].todo),
                    cur |-> IF RootSkipped(RootOf(loc[p].project_id, dir))
                            THEN <<>>
                            ELSE FilesIn(Tree(p), dir)],
                   [acts |-> hist[p].acts \cup {"walk"}])
    /\ UNCHANGED <<gitInstalled, repo_url, rows, nextId, scratch, calls, last, file_name, language>>

\* main.py:145  the directory os.walk comes to is gone: the error of its
\* listing is ignored and nothing under it is yielded
WalkGone(p) ==
    /\ loc[p].pc = "walk"
    /\ loc[p].cur = <<>>
    /\ loc[p].todo # <<>>
    /\ CanMiss(p)
    /\ Step(p, [todo |-> Tail(loc[p].todo)], [acts |-> hist[p].acts \cup {"walk"}])
    /\ UNCHANGED <<gitInstalled, repo_url, rows, nextId, scratch, calls, last, file_name, language>>

\* A size test that also rejects a file of exactly the ceiling.
TooLargeInclusive(size) == size >= SIZE_CEILING

\* main.py:160  file_size > 1_000_000
TooLarge(size) == size > SIZE_CEILING

\* A read that hands back the bytes of a file that does not decode.
DecisionWithoutDecoding(f) ==
    IF f.kind = "dangling" THEN "stat_error"
    ELSE IF TooLarge(f.size) THEN "too_large"
    ELSE IF f.kind = "unreadable" THEN "read_error"
    ELSE "import"

\* main.py:157-225  what happens to one file
Decision(f) ==
    IF f.kind = "dangling" THEN "stat_error"
    ELSE IF TooLarge(f.size) THEN "too_large"
    ELSE IF f.kind = "unreadable" THEN "read_error"
    ELSE IF f.kind = "binary" THEN "binary"
    ELSE "import"

\* main.py:157-166, 218-225  the file is skipped
SkipFile(p) ==
    /\ loc[p].pc = "walk"
    /\ loc[p].cur # <<>>
    /\ CanSee(p)
    /\ LET i == Head(loc[p].cur)
           d == Decision(Tree(p)[i])
       IN  /\ d # "import"
           /\ Step(p, [cur |-> Tail(loc[p].cur),
                       files_skipped |-> loc[p].files_skipped + 1],
                      [evals |-> Append(hist[p].evals, i),
                       skipped |-> Append(hist[p].skipped, i),
                       reads |-> IF d \in {"read_error", "binary"}
                                 THEN hist[p].reads \cup {i}
                                 ELSE hist[p].reads])
    /\ UNCHANGED <<gitInstalled, repo_url, rows, nextId, scratch, calls, last, file_name, language>>

\* main.py:157-166  the file listed is gone: getsize raises, the file is
\* skipped
MissingFile(p) ==
    /\ loc[p].pc = "walk"
    /\ loc[p].cur # <<>>
    /\ CanMiss(p)
    /\ LET i == Head(loc[p].cur)
       IN  Step(p, [cur |-> Tail(loc[p].cur),
                    files_skipped |-> loc[p].files_skipped + 1],
                   [evals |-> Append(hist[p].evals, i),
                    skipped |-> Append(hist[p].skipped, i)])
    /\ UNCHANGED <<gitInstalled, repo_url, rows, nextId, scratch, calls, last, file_name, language>>

\* What every staging step records.
Staged(p, i) ==
    [evals |-> Append(hist[p].evals, i),
     imported |-> Append(hist[p].imported, i),
     reads |-> hist[p].reads \cup {i},
     maxPending |-> Max(hist[p].maxPending, Len(loc[p].pending) + 1),
     addsAfterFail |-> IF hist[p].failedAt # 0
                       THEN hist[p].addsAfterFail + 1
                       ELSE hist[p].addsAfterFail]

\* main.py:168-214  the file is read, classified and staged; no batch
\* boundary
StageFile(p) ==
    /\ loc[p].pc = "walk"
    /\ loc[p].cur # <<>>
    /\ CanSee(p)
    /\ LET i == Head(loc[p].cur)
           f == Tree(p)[i]
       IN  /\ Decision(f) = "import"
           /\ (loc[p].files_imported + 1) % BATCH_SIZE # 0
           /\ Step(p, [cur |-> Tail(loc[p].cur),
                       files_imported |-> loc[p].files_imported + 1,
                       pending |-> Append(loc[p].pending,
                                          StagedFile(loc[p].project_id, f))],
                      Staged(p, i))
    /\ UNCHANGED <<gitInstalled, repo_url, rows, nextId, scratch, calls, last, file_name, language>>

\* main.py:168-216  the file is staged and the batch is committed
StageCommitOk(p) ==
    /\ loc[p].pc = "walk"
    /\ loc[p].cur # <<>>
    /\ CanSee(p)
    /\ loc[p].session_ok
    /\ LET i == Head(loc[p].cur)
           f == Tree(p)[i]
           batch == Append(loc[p].pending, StagedFile(loc[p].project_id, f))
       IN  /\ Decision(f) = "import"
           /\ (loc[p].files_imported + 1) % BATCH_SIZE = 0
           /\ rows' = rows \cup NewRows(batch, nextId)
           /\ nextId' = nextId + Len(batch)
           /\ Step(p, [cur |-> Tail(loc[p].cur),
                       files_imported |-> loc[p].files_imported + 1,
                       pending |-> <<>>],
                      Both(Staged(p, i),
                          [commits |-> Append(hist[p].commits,
                                              [n |-> Len(batch), ok |-> TRUE]),
                           batches |-> Append(hist[p].batches, PathsOf(batch)),
                           acts |-> hist[p].acts \cup {"commit"}]))
    /\ UNCHANGED <<gitInstalled, repo_url, scratch, calls, last, file_name, language>>

\* main.py:215, 222-225  the commit at the batch boundary raises and the
\* handler of the read counts the file as skipped.  A session whose commit
\* has raised refuses every later commit until rollback() is called.
StageCommitFail(p) ==
    /\ loc[p].pc = "walk"
    /\ loc[p].cur # <<>>
    /\ CanSee(p)
    /\ LET i == Head(loc[p].cur)
           f == Tree(p)[i]
           batch == Append(loc[p].pending, StagedFile(loc[p].project_id, f))
       IN  /\ Decision(f) = "import"
           /\ (loc[p].files_imported + 1) % BATCH_SIZE = 0
           /\ rows' = RowsAfterFailedCommit(rows, loc[p].project_id)
           /\ Step(p, [cur |-> Tail(loc[p].cur),
                       files_imported |-> loc[p].files_imported + 1,
                       files_skipped |-> loc[p].files_skipped + 1,
                       pending |-> IF loc[p].session_ok THEN <<>> ELSE batch,
                       session_ok |-> FALSE],
                      Both(Staged(p, i),
                          [commits |-> IF loc[p].session_ok
                                       THEN Append(hist[p].commits,
                                                   [n |-> Len(batch), ok |-> FALSE])
                                       ELSE hist[p].commits,
                           failedAt |-> IF hist[p].failedAt = 0
                                        THEN Len(hist[p].batches) + 1
                                        ELSE hist[p].failedAt,
                           failedSet |-> IF hist[p].failedAt = 0
                                         THEN PathsOf(batch)
                                         ELSE hist[p].failedSet,
                           skipped |-> Append(hist[p].skipped, i),
                           acts |-> hist[p].acts \cup {"commit"}]))
    /\ UNCHANGED <<gitInstalled, repo_url, nextId, scratch, calls, last, file_name, language>>

\* main.py:145  os.walk is exhausted
WalkEnd(p) ==
    /\ loc[p].pc = "walk"
    /\ loc[p].cur = <<>>
    /\ loc[p].todo = <<>>
    /\ Step(p, [pc |-> "final_commit"], None)
    /\ UNCHANGED <<gitInstalled, repo_url, rows, nextId, scratch, calls, last, file_name, language>>

\* main.py:228-230  the final commit succeeds
FinalCommitOk(p) ==
    /\ loc[p].pc = "final_commit"
    /\ loc[p].session_ok
    /\ rows' = rows \cup NewRows(loc[p].pending, nextId)
    /\ nextId' = nextId + Len(loc[p].pending)
    /\ Step(p, [pc |-> "update_url", pending |-> <<>>],
               [commits |-> Append(hist[p].commits,
                                   [n |-> Len(loc[p].pending), ok |-> TRUE]),
                batches |-> IF loc[p].pending = <<>> THEN hist[p].batches
                            ELSE Append(hist[p].batches, PathsOf(loc[p].pending)),
                acts |-> hist[p].acts \cup {"commit"}])
    /\ UNCHANGED <<gitInstalled, repo_url, scratch, calls, last, file_name, language>>

\* A failure handler that records the repository URL all the same.
UrlAfterFailedCommitWritten(urls, project_id, url) ==
    [urls EXCEPT ![project_id] = url]

\* main.py:231-233  repo_url after the final commit raised: the handler
\* rolls back and returns, line 236 is not reached
UrlAfterFailedCommit(urls, project_id, url) == urls

\* main.py:231-233  the final commit raises (always, once an earlier commit
\* of the session has raised); rollback() drops what was staged
FinalCommitFail(p) ==
    /\ loc[p].pc = "final_commit"
    /\ rows' = RowsAfterFailedCommit(rows, loc[p].project_id)
    /\ Step(p, [pc |-> "done", result |-> "error_save",
                pending |-> <<>>, session_ok |-> TRUE],
               [commits |-> IF loc[p].session_ok
                            THEN Append(hist[p].commits,
                                        [n |-> Len(loc[p].pending), ok |-> FALSE])
                            ELSE hist[p].commits,
                failedAt |-> IF hist[p].failedAt = 0
                             THEN Len(hist[p].batches) + 1
                             ELSE hist[p].failedAt,
                failedSet |-> IF hist[p].failedAt = 0
                              THEN PathsOf(loc[p].pending)
                              ELSE hist[p].failedSet,
                acts |-> hist[p].acts \cup {"commit"}])
    /\ repo_url' = UrlAfterFailedCommit(repo_url, loc[p].project_id, loc[p].url)
    /\ UNCHANGED <<gitInstalled, nextId, scratch, calls, last, file_name, language>>

\* main.py:236-238
UpdateUrlOk(p) ==
    /\ loc[p].pc = "update_url"
    /\ repo_url' = [repo_url EXCEPT ![loc[p].project_id] = loc[p].url]
    /\ Step(p, [pc |-> "cleanup"], [acts |-> hist[p].acts \cup {"commit"}])
    /\ UNCHANGED <<gitInstalled, rows, nextId, scratch, calls, last, file_name, language>>

\* main.py:239-240  the update raises: a warning
UpdateUrlFail(p) ==
    /\ loc[p].pc = "update_url"
    /\ Step(p, [pc |-> "cleanup", session_ok |-> FALSE],
               [acts |-> hist[p].acts \cup {"commit"}, urlFailed |-> TRUE])
    /\ UNCHANGED <<gitInstalled, repo_url, rows, nextId, scratch, calls, last, file_name, language>>

\* main.py:243-245, 249-253
CleanupOk(p) ==
    /\ loc[p].pc = "cleanup"
    /\ scratch' = [scratch EXCEPT ![loc[p].project_id] = Absent]
    /\ Step(p, [pc |-> "done", result |-> "ok"],
               [acts |-> hist[p].acts \cup {"rmtree"}])
    /\ UNCHANGED <<gitInstalled, repo_url, rows, nextId, calls, last, file_name, language>>

\* main.py:246-247, 249-253  rmtree raises: a warning
CleanupFail(p) ==
    /\ loc[p].pc = "cleanup"
    /\ scratch' = [scratch EXCEPT ![loc[p].project_id].st =
                      IF @ = "absent" THEN "absent" ELSE "partial"]
    /\ Step(p, [pc |-> "done", result |-> "ok"],
               [acts |-> hist[p].acts \cup {"rmtree"}, rmFailed |-> TRUE])
    /\ UNCHANGED <<gitInstalled, repo_url, rows, nextId, calls, last, file_name, language>>

\* main.py:104-253  the body of the response for locals l at a return: the
\* success summary with both counts, or the key "error" alone with the
\* message of the step that failed
Response(l) ==
    IF l.result = "ok"
    THEN [message |-> "Successfully cloned", files_imported |-> l.files_imported,
          files_skipped |-> l.files_skipped]
    ELSE [error |-> CASE l.result = "error_no_git" -> "GitPython not installed"
                      [] l.result = "error_not_found" -> "Project not found"
                      [] l.result = "error_cleanup" -> "Failed to clean existing clone"
                      [] l.result = "error_clone" -> "Git clone failed"
                      [] l.result = "error_clear" -> "Failed to clear existing files"
                      [] l.result = "error_save" -> "Failed to save files to database"
                      [] OTHER -> "none"]

\* The response is sent; get_db closes the session (database.py:13-18).
Return(p) ==
    /\ loc[p].pc = "done"
    /\ last' = IF loc[p].result = "ok"
               THEN [project_id |-> loc[p].project_id, url |-> loc[p].url,
                     result |-> loc[p].result,
                     files |-> FilesOf(rows, loc[p].project_id)]
               ELSE NoLast
    /\ loc' = [loc EXCEPT ![p] = IdleLoc]
    /\ hist' = [hist EXCEPT ![p] = NoHist]
    /\ UNCHANGED <<gitInstalled, repo_url, rows, nextId, scratch, calls, file_name,
                   language>>

Next ==
    \E p \in Procs :
        \/ \E project_id \in RequestIds, url \in Urls : Start(p, project_id, url)
        \/ CheckGit(p)
        \/ FindProject(p)
        \/ NoStaleClone(p)
        \/ RemoveStaleOk(p)
        \/ RemoveStaleFail(p)
        \/ CloneOk(p)
        \/ \E left \in BOOLEAN : CloneFail(p, left)
        \/ DeleteExistingOk(p)
        \/ DeleteExistingFail(p)
        \/ WalkDir(p)
        \/ SkipFile(p)
        \/ StageFile(p)
        \/ StageCommitOk(p)
        \/ StageCommitFail(p)
        \/ WalkEnd(p)
        \/ FinalCommitOk(p)
        \/ FinalCommitFail(p)
        \/ UpdateUrlOk(p)
        \/ UpdateUrlFail(p)
        \/ CleanupOk(p)
        \/ CleanupFail(p)
        \/ Return(p)

Spec == Init /\ [][Next]_vars

(***************************************************************************)
(* Two worker processes (main.py:301), one request each, served at the     *)
(* same time.  Both name the repository of two files; a clone directory may *)
(* be left from an earlier call whose removal failed.                      *)
(***************************************************************************)
StaleClone == [st |-> "partial", url |-> "pair"]

ConcInit ==
    /\ gitInstalled \in BOOLEAN
    /\ repo_url = [i \in ProjectIds |-> "null"]
    /\ rows = {ManualFile}
    /\ nextId = 1
    /\ scratch \in {s \in [ProjectIds \cup {MissingId} -> {Absent, StaleClone}] :
                        s[MissingId] = Absent}
    /\ loc = [p \in Procs |-> IdleLoc]
    /\ hist = [p \in Procs |-> NoHist]
    /\ calls = 0
    /\ last = NoLast
    /\ file_name = <<>>
    /\ language = "none"

\* POST /projects/{project_id}/clone arrives at worker p.
ConcStart(p, project_id) ==
    /\ loc[p].pc = "idle"
    /\ calls' = calls + 1
    /\ loc' = [loc EXCEPT ![p] =
                  Upd(IdleLoc, [pc |-> "check_git", project_id |-> project_id,
                                url |-> "pair"])]
    /\ hist' = [hist EXCEPT ![p] =
                  Upd(NoHist, [preRows |-> rows, preUrl |-> repo_url,
                               preNextId |-> nextId, preScratch |-> scratch])]
    /\ UNCHANGED <<gitInstalled, repo_url, rows, nextId, scratch, last, file_name,
                   language>>

ConcNext ==
    \E p \in Procs :
        \/ \E project_id \in ProjectIds : ConcStart(p, project_id)
        \/ CheckGit(p)
        \/ FindProject(p)
        \/ NoStaleClone(p)
        \/ RemoveStaleOk(p)
        \/ RemoveStaleFail(p)
        \/ CloneOk(p)
        \/ \E left \in BOOLEAN : CloneFail(p, left)
        \/ CloneOntoExisting(p)
        \/ DeleteExistingOk(p)
        \/ DeleteExistingFail(p)
        \/ WalkDir(p)
        \/ WalkGone(p)
        \/ SkipFile(p)
        \/ MissingFile(p)
        \/ StageFile(p)
        \/ WalkEnd(p)
        \/ FinalCommitOk(p)
        \/ FinalCommitFail(p)
        \/ UpdateUrlOk(p)
        \/ UpdateUrlFail(p)
        \/ CleanupOk(p)
        \/ CleanupFail(p)

ConcSpec == ConcInit /\ [][ConcNext]_vars

(***************************************************************************)
(* The classifier alone (main.py:173-201), applied to every file name of   *)
(* up to MaxNameLen characters over NameChars.                             *)
(***************************************************************************)
MaxNameLen == 5

NameChars == {"x", ".", "c", "h", "H"}

\* The names of 1 to n characters.
NamesUpTo(n) == UNION {[1..k -> NameChars] : k \in 1..n}

Names == NamesUpTo(MaxNameLen)

ClassifyInit ==
    /\ gitInstalled \in BOOLEAN
    /\ repo_url = [i \in ProjectIds |-> "null"]
    /\ rows = {ManualFile}
    /\ nextId = 1
    /\ scratch = [i \in ProjectIds \cup {MissingId} |-> Absent]
    /\ loc = [p \in Procs |-> IdleLoc]
    /\ hist = [p \in Procs |-> NoHist]
    /\ calls = 0
    /\ last = NoLast
    /\ file_name \in Names
    /\ language = "none"

\* main.py:173-201
ClassifyFile ==
    /\ language = "none"
    /\ language' = Classify(file_name)
    /\ UNCHANGED <<gitInstalled, repo_url, rows, nextId, scratch, loc, hist,
                   calls, last, file_name>>

ClassifyNext == ClassifyFile

ClassifySpec == ClassifyInit /\ [][ClassifyNext]_vars

(***************************************************************************)
(* Properties.                                                             *)
(***************************************************************************)
\* The requests whose call is in progress or has just ended.
Active == {p \in Procs : loc[p].pc # "idle"}
Ended == {p \in Procs : loc[p].pc = "done"}

\* The File rows of the project request p names.
ProjectRows(p) == {r \in rows : r.project_id = loc[p].project_id}

\* The rows and the repository URLs are what they were when the call began.
StoreUntouched(p) == rows = hist[p].preRows /\ repo_url = hist[p].preUrl

\* C1: once the clone has succeeded, the scratch directory is gone when the
\* call returns, whatever the outcome, unless the final removal itself failed.
C1_ScratchReleasedAfterFetch ==
    \A p \in Ended :
        (hist[p].cloned /\ ~hist[p].rmFailed)
            => scratch[loc[p].project_id].st = "absent"

\* C2: when the clone fails, the scratch directory is absent when the call
\* returns the clone error, also when the clone had created part of it.
C2_ScratchAbsentAfterFetchError ==
    \A p \in Ended :
        loc[p].result = "error_clone" => scratch[loc[p].project_id].st = "absent"

\* C3: when the clone fails, the File rows of every project and the
\* repository URLs are exactly what they were before the call.
C3_FetchFailureLeavesStore ==
    \A p \in Ended : loc[p].result = "error_clone" => StoreUntouched(p)

\* A clone failure on a project that has rows, while another project has
\* rows too.
C3_Witness ==
    \E p \in Ended :
        /\ loc[p].result = "error_clone"
        /\ ProjectRows(p) # {}
        /\ rows # ProjectRows(p)

\* What a call for a missing project has done: the project lookup and
\* nothing else, to the store, to the scratch directories or on the network.
NoSideEffects(p) ==
    /\ hist[p].acts \subseteq {"query"}
    /\ StoreUntouched(p)
    /\ scratch = hist[p].preScratch
    /\ nextId = hist[p].preNextId

\* C4 as stated: a call naming no existing project returns the not-found
\* error and has no side effect at any point.
C4_NotFoundNoSideEffects ==
    \A p \in Active :
        loc[p].project_id \notin DOMAIN repo_url
            => /\ NoSideEffects(p)
               /\ loc[p].pc = "done" => loc[p].result = "error_not_found"

\* C4 as amended: a call naming no existing project has no side effect at any
\* point; it returns the not-found error when the git library is installed
\* and the library-missing error when it is not.
C4_MissingProjectNoSideEffects ==
    \A p \in Active :
        loc[p].project_id \notin DOMAIN repo_url
            => /\ NoSideEffects(p)
               /\ loc[p].pc = "done" =>
                     loc[p].result = IF gitInstalled THEN "error_not_found"
                                     ELSE "error_no_git"

\* The not-found error is returned while rows and a stale scratch directory
\* exist that the call could have touched.
C4_Witness ==
    \E p \in Ended :
        /\ loc[p].result = "error_not_found"
        /\ rows # {}
        /\ \E i \in ProjectIds : scratch[i].st # "absent"

\* C5: after a commit at a batch boundary has failed, no further file is
\* staged, the repository URL is not updated and the call returns the
\* persistence error.
C5_BatchFailureIsFatal ==
    \A p \in Active :
        hist[p].failedAt # 0
            => /\ hist[p].addsAfterFail = 0
               /\ repo_url[loc[p].project_id] = hist[p].preUrl[loc[p].project_id]
               /\ loc[p].pc = "done" => loc[p].result = "error_save"

\* A file beneath a directory whose name is on the denylist.
UnderDenylisted(f) == \E k \in 1..Len(f.dir) : f.dir[k] \in Denylist

\* A regular text file within the size ceiling outside every denylisted
\* directory.
Eligible(f) ==
    /\ f.kind = "text"
    /\ f.size <= SIZE_CEILING
    /\ ~UnderDenylisted(f)

\* How often file i was evaluated.
Evaluations(p, i) ==
    Cardinality({k \in 1..Len(hist[p].evals) : hist[p].evals[k] = i})

\* C6: in a successful import every eligible file of the tree is evaluated
\* exactly once and has exactly one File row, a file in .github included.
C6_EligibleFilesImportedOnce ==
    \A p \in Ended :
        loc[p].result = "ok" =>
            \A i \in 1..Len(Remote[loc[p].url]) :
                LET f == Remote[loc[p].url][i]
                IN  Eligible(f) =>
                       /\ Evaluations(p, i) = 1
                       /\ Cardinality({r \in ProjectRows(p) :
                                          r.path = RelativePath(f)}) = 1

\* C7: no file beneath a denylisted directory, at any depth, is evaluated,
\* read, staged or stored.
C7_DenylistedSubtreesNeverVisited ==
    \A p \in Active :
        loc[p].url \in Urls =>
            \A i \in 1..Len(Remote[loc[p].url]) :
                LET f == Remote[loc[p].url][i]
                IN  UnderDenylisted(f) =>
                       /\ Evaluations(p, i) = 0
                       /\ i \notin hist[p].reads
                       /\ RelativePath(f) \notin PathsOf(loc[p].pending)
                       /\ \A r \in rows : r.path # RelativePath(f)

\* A finished import of the tree that holds denylisted directories at depth
\* one, two and three, with its other files evaluated.
C7_Witness ==
    \E p \in Ended :
        /\ loc[p].result = "ok"
        /\ loc[p].url = "tree"
        /\ \E i \in 1..Len(RepoTree) :
              UnderDenylisted(RepoTree[i]) /\ Len(RepoTree[i].dir) = 3
        /\ Len(hist[p].evals) > 0

\* The call of p follows a successful import of the same repository into
\* the same project.
Reimport(p) ==
    /\ loc[p].result = "ok"
    /\ last.result = "ok"
    /\ last.project_id = loc[p].project_id
    /\ last.url = loc[p].url

\* C8: a second successful import of the same repository into the same
\* project leaves the File rows (path, content, label) the first left, no
\* path twice, and every row is one the second import wrote.
C8_ReimportIdempotent ==
    \A p \in Ended :
        Reimport(p) =>
            /\ FilesOf(rows, loc[p].project_id) = last.files
            /\ Cardinality(ProjectRows(p)) = Cardinality(last.files)
            /\ \A r \in ProjectRows(p) : r.id > hist[p].preNextId

\* A second import of a repository that had left rows.
C8_Witness ==
    \E p \in Ended : Reimport(p) /\ last.files # {} /\ ProjectRows(p) # {}

\* ceil(n / BATCH_SIZE)
Batches(n) == (n + BATCH_SIZE - 1) \div BATCH_SIZE

\* The commits of staged records the store received that were not empty.
NonEmptyCommits(p) ==
    {k \in 1..Len(hist[p].commits) : hist[p].commits[k].n > 0}

\* C9: never more than BATCH_SIZE records are staged and uncommitted, no
\* commit carries more than BATCH_SIZE, and a finished traversal of N
\* imported files has made ceil(N / BATCH_SIZE) non-empty commits.
C9_BatchingBounded ==
    \A p \in Active :
        /\ hist[p].maxPending <= BATCH_SIZE
        /\ \A k \in 1..Len(hist[p].commits) : hist[p].commits[k].n <= BATCH_SIZE
        /\ loc[p].pc \in {"update_url", "cleanup"} =>
              Cardinality(NonEmptyCommits(p)) = Batches(loc[p].files_imported)

\* C10: when the commit of batch k fails, the rows of batches 1..k-1 are in
\* the store when the call returns and no row of batch k is.
C10_BatchesIndependentlyDurable ==
    \A p \in Ended :
        hist[p].failedAt # 0 =>
            /\ \A j \in 1..(hist[p].failedAt - 1) :
                  \A path \in hist[p].batches[j] :
                      \E r \in ProjectRows(p) :
                          r.path = path /\ r.id > hist[p].preNextId
            /\ \A path \in hist[p].failedSet :
                  \A r \in ProjectRows(p) : r.path # path

\* The commit of the second batch failed after the first was committed.
C10_Witness ==
    \E p \in Ended :
        /\ hist[p].failedAt = 2
        /\ hist[p].batches # <<>>
        /\ hist[p].failedSet # {}

\* How often file i was counted in files_skipped, and in files_imported.
TimesSkipped(p, i) ==
    Cardinality({k \in 1..Len(hist[p].skipped) : hist[p].skipped[k] = i})
TimesImported(p, i) ==
    Cardinality({k \in 1..Len(hist[p].imported) : hist[p].imported[k] = i})

\* The traversal of p is over.
WalkOver(p) ==
    \/ loc[p].pc \in {"final_commit", "update_url", "cleanup"}
    \/ loc[p].pc = "done" /\ loc[p].result \in {"ok", "error_save"}

\* A file the traversal yields: no directory above it is pruned by name
\* (main.py:151) or skipped for '.git' in its path (main.py:147).
Yielded(f) ==
    \A k \in 1..Len(f.dir) :
        f.dir[k] \notin Denylist /\ ~Contains(f.dir[k], DOT_GIT)

\* C11: a file above the ceiling of 1,000,000 bytes is never opened, never
\* imported, and once the traversal is over every such file it yielded has
\* been counted as skipped exactly once; a text file of exactly 1,000,000
\* bytes is read and staged, not skipped.
C11_OversizedSkippedUnread ==
    \A p \in Active :
        loc[p].url \in Urls =>
            \A i \in 1..Len(Remote[loc[p].url]) :
                LET f == Remote[loc[p].url][i]
                IN  /\ (f.kind # "dangling" /\ f.size > SIZE_CEILING) =>
                          /\ i \notin hist[p].reads
                          /\ TimesImported(p, i) = 0
                          /\ TimesSkipped(p, i) <= 1
                          /\ (WalkOver(p) /\ Yielded(f)) => TimesSkipped(p, i) = 1
                    /\ (f.kind = "text" /\ f.size = SIZE_CEILING
                        /\ WalkOver(p) /\ Yielded(f)) =>
                          /\ i \in hist[p].reads
                          /\ TimesImported(p, i) = 1
                          /\ TimesSkipped(p, i) = 0

\* A finished traversal that met a text file above the ceiling, a binary
\* file above it and a text file of exactly the ceiling.
C11_Witness ==
    \E p \in Ended :
        /\ loc[p].result = "ok"
        /\ \E i, j, k \in 1..Len(Remote[loc[p].url]) :
              LET t == Remote[loc[p].url]
              IN  /\ t[i].kind = "text" /\ t[i].size > SIZE_CEILING
                  /\ TimesSkipped(p, i) = 1
                  /\ t[j].kind = "binary" /\ t[j].size > SIZE_CEILING
                  /\ TimesSkipped(p, j) = 1
                  /\ t[k].size = SIZE_CEILING /\ TimesImported(p, k) = 1

\* The File records request p has written or staged: rows of its project
\* stored since it started, and what its session holds pending.
WrittenBy(p) ==
    {[path |-> r.path, content |-> r.content] :
        r \in ProjectRows(p) \ hist[p].preRows}
    \cup {[path |-> loc[p].pending[k].path, content |-> loc[p].pending[k].content] :
            k \in 1..Len(loc[p].pending)}

\* C12: a file whose read raises UnicodeDecodeError is counted as skipped
\* and never staged or stored, so every File record the import writes is
\* the decoded content of a text file of the working tree.
C12_UndecodableNeverStored ==
    \A p \in Active :
        loc[p].url \in Urls =>
            /\ \A i \in 1..Len(Remote[loc[p].url]) :
                  LET f == Remote[loc[p].url][i]
                  IN  f.kind = "binary" =>
                        /\ TimesImported(p, i) = 0
                        /\ \A w \in WrittenBy(p) : w.path # RelativePath(f)
                        /\ i \in hist[p].reads => TimesSkipped(p, i) = 1
                        /\ (WalkOver(p) /\ Yielded(f)) => TimesSkipped(p, i) = 1
            /\ \A w \in WrittenBy(p) :
                  \E i \in 1..Len(Remote[loc[p].url]) :
                      LET f == Remote[loc[p].url][i]
                      IN  /\ f.kind = "text"
                          /\ w.path = RelativePath(f)
                          /\ w.content = f.content

\* An import that met a file that does not decode, skipped it after the
\* read, and stored rows for the others.
C12_Witness ==
    \E p \in Ended :
        /\ loc[p].result = "ok"
        /\ ProjectRows(p) # {}
        /\ \E i \in hist[p].reads :
              /\ Remote[loc[p].url][i].kind = "binary"
              /\ TimesSkipped(p, i) = 1

\* C13: when the removal of a stale clone directory fails the call ends
\* with the cleanup error, the clone is not attempted and the files table,
\* the id sequence and every repo_url are as at entry; and whenever the
\* call is about to clone, its project's clone directory does not exist.
C13_StaleRemovalFailureAborts ==
    \A p \in Active :
        /\ loc[p].result = "error_cleanup" =>
              /\ loc[p].pc = "done"
              /\ "clone" \notin hist[p].acts
              /\ ~hist[p].cloned
              /\ "delete" \notin hist[p].acts
              /\ StoreUntouched(p)
              /\ nextId = hist[p].preNextId
        /\ loc[p].pc = "clone" => scratch[loc[p].project_id].st = "absent"
        /\ (hist[p].preScratch[loc[p].project_id].st # "absent"
            /\ "clone" \in hist[p].acts) =>
              loc[p].result # "error_cleanup"

\* A call that found a stale clone directory, failed to remove it and
\* ended with the cleanup error while the project had rows.
C13_Witness ==
    \E p \in Ended :
        /\ loc[p].result = "error_cleanup"
        /\ hist[p].preScratch[loc[p].project_id].st # "absent"
        /\ FilesOf(rows, loc[p].project_id) # {}

\* The files of repository u that an import alone stages, and those it
\* counts as skipped.
SoloImported(u) ==
    {i \in 1..Len(Remote[u]) :
        Yielded(Remote[u][i]) /\ Decision(Remote[u][i]) = "import"}
SoloSkipped(u) ==
    {i \in 1..Len(Remote[u]) :
        Yielded(Remote[u][i]) /\ Decision(Remote[u][i]) # "import"}

\* What the call of p leaves when nothing else touches its project: by its
\* result, the rows of the project, the counts and the project's repo_url.
SoloOutcome(p) ==
    LET pid == loc[p].project_id
        u   == loc[p].url
        now == FilesOf(rows, pid)
        all == {[path |-> RelativePath(Remote[u][i]),
                 content |-> Remote[u][i].content,
                 language |-> Classify(Remote[u][i].name)] : i \in SoloImported(u)}
    IN  CASE loc[p].result = "ok" ->
                /\ now = all
                /\ loc[p].files_imported = Cardinality(SoloImported(u))
                /\ loc[p].files_skipped = Cardinality(SoloSkipped(u))
          [] loc[p].result = "error_save" ->
                /\ now \subseteq all
                /\ loc[p].files_imported = Cardinality(SoloImported(u))
                /\ repo_url[pid] = hist[p].preUrl[pid]
          [] loc[p].result = "error_not_found" ->
                loc[p].files_imported = 0 /\ loc[p].files_skipped = 0
          [] OTHER ->
                /\ now = FilesOf(hist[p].preRows, pid)
                /\ pid \in DOMAIN repo_url => repo_url[pid] = hist[p].preUrl[pid]
                /\ loc[p].files_imported = 0 /\ loc[p].files_skipped = 0

\* The request whose locals this step changes leaves alone the clone
\* directory, the File rows and the repo_url of every other project.
OthersUntouched ==
    \A p \in Procs :
        loc'[p] # loc[p] =>
            \A k \in ProjectIds \ {loc'[p].project_id} :
                /\ scratch'[k] = scratch[k]
                /\ {r \in rows' : r.project_id = k} = {r \in rows : r.project_id = k}
                /\ repo_url'[k] = repo_url[k]

\* C14: two imports of different projects, interleaved in any way, have
\* different clone directories, no step of one changes the clone directory,
\* the File rows or the repo_url of the other's project, and each ends with
\* the rows and the counts it ends with when it runs alone.
C14_DifferentProjectsIndependent ==
    /\ [](\A p, q \in Procs :
            (p # q /\ loc[p].pc # "idle" /\ loc[q].pc # "idle"
             /\ loc[p].project_id # loc[q].project_id) =>
                /\ ClonePath(loc[p].project_id) # ClonePath(loc[q].project_id)
                /\ loc[p].pc = "done" => SoloOutcome(p))
    /\ [][OthersUntouched]_vars

\* Two imports of different projects, each started before the other had
\* stored anything, one of them after removing a stale clone directory,
\* both ended with a success summary.
C14_Witness ==
    /\ \A p \in Procs : loc[p].pc = "done" /\ loc[p].result = "ok"
                        /\ hist[p].preNextId = 1
    /\ loc[1].project_id # loc[2].project_id
    /\ \E p \in Procs : hist[p].preScratch[loc[p].project_id].st # "absent"

\* C15: repo_url of the project differs from its value at entry only after
\* the delete, the whole traversal and the final commit of the call have
\* succeeded; every call that ends with an error leaves it as at entry; and
\* a call whose URL update or whose final rmtree raised still ends with the
\* success summary and the counts of the traversal.
C15_UrlOnlyAfterSuccess ==
    \A p \in Active :
        /\ repo_url # hist[p].preUrl =>
              /\ loc[p].pc \in {"cleanup", "done"}
              /\ loc[p].result \in {"none", "ok"}
              /\ "delete" \in hist[p].acts
              /\ loc[p].todo = <<>> /\ loc[p].cur = <<>>
              /\ hist[p].failedAt = 0
              /\ hist[p].commits # <<>>
              /\ \A k \in 1..Len(hist[p].commits) : hist[p].commits[k].ok
              /\ loc[p].pending = <<>>
              /\ repo_url =
                    [hist[p].preUrl EXCEPT ![loc[p].project_id] = loc[p].url]
        /\ (loc[p].pc = "done" /\ loc[p].result # "ok") =>
              repo_url = hist[p].preUrl
        /\ (loc[p].pc = "done" /\ (hist[p].urlFailed \/ hist[p].rmFailed)) =>
              /\ loc[p].result = "ok"
              /\ loc[p].files_imported = Cardinality(SoloImported(loc[p].url))
              /\ loc[p].files_skipped = Cardinality(SoloSkipped(loc[p].url))

\* A call that ended with a success summary although both its URL update
\* and its final rmtree raised, after an earlier call had written another
\* URL.
C15_Witness ==
    \E p \in Ended :
        /\ loc[p].result = "ok"
        /\ hist[p].urlFailed /\ hist[p].rmFailed
        /\ loc[p].files_imported > 0
        /\ repo_url[loc[p].project_id] # loc[p].url
        /\ repo_url[loc[p].project_id] # "null"

\* The labels of the classifier.
Labels == {e[2] : e \in language_map} \cup {"plaintext"}

\* The extensions the table knows.
KnownExtensions == {e[1] : e \in language_map}

\* C16: every file name gets a label; names whose final extensions are equal
\* once lower-cased get the same label, so a name and its lower-cased form
\* do; a name without an extension, or with one the table does not know,
\* gets "plaintext".
C16_ClassifyByLowercasedExtension ==
    language # "none" =>
        /\ language \in Labels
        /\ language = Classify(file_name)
        /\ language = Classify(Lower(file_name))
        /\ \A other \in NamesUpTo(3) :
              Lower(Suffix(other)) = Lower(Suffix(file_name)) =>
                  Classify(other) = language
        /\ Suffix(file_name) = <<>> => language = "plaintext"
        /\ Lower(Suffix(file_name)) \notin KnownExtensions =>
              language = "plaintext"
        /\ Lower(Suffix(file_name)) = <<".", "h">> => language = "c"

\* A name with a second extension in upper case that got the label of the
\* lower-cased final extension.
C16_Witness ==
    /\ file_name = <<"x", ".", "c", ".", "H">>
    /\ language = "c"

\* C17: every evaluation of a file adds one to exactly one of
\* files_imported and files_skipped, so their sum is the number of files
\* evaluated, also when a commit at a batch boundary raised.
C17_CountsMatchOutcomes ==
    \A p \in Active :
        /\ loc[p].files_imported = Len(hist[p].imported)
        /\ loc[p].files_skipped = Len(hist[p].skipped)
        /\ \A k \in 1..Len(hist[p].evals) :
              TimesImported(p, hist[p].evals[k])
                  + TimesSkipped(p, hist[p].evals[k]) = 1
        /\ loc[p].files_imported + loc[p].files_skipped = Len(hist[p].evals)

\* C18: whenever the call ends with the success summary, the number of File
\* rows stored for its project is the files_imported it reports, also when
\* a commit of the call raised.
C18_SuccessCountIsStoredRows ==
    \A p \in Ended :
        loc[p].result = "ok" =>
            /\ Cardinality(ProjectRows(p)) = loc[p].files_imported
            /\ Cardinality(FilesOf(rows, loc[p].project_id)) = loc[p].files_imported

\* A success summary of a call that committed two full batches and a rest,
\* and whose commit of the repository URL raised.
C18_Witness ==
    \E p \in Ended :
        /\ loc[p].result = "ok"
        /\ hist[p].urlFailed
        /\ loc[p].files_imported > 2 * BATCH_SIZE
        /\ Cardinality(ProjectRows(p)) = loc[p].files_imported

\* C19: when the final commit raises, the response names the failing step
\* and carries files_imported and files_skipped as accumulated.
C19_SaveErrorCarriesCounts ==
    \A p \in Ended :
        loc[p].result = "error_save" =>
            LET body == Response(loc[p])
            IN  /\ "error" \in DOMAIN body
                /\ body.error = "Failed to save files to database"
                /\ "files_imported" \in DOMAIN body
                /\ "files_skipped" \in DOMAIN body
                /\ body.files_imported = loc[p].files_imported
                /\ body.files_skipped = loc[p].files_skipped

\* Two File rows of project k have the same path.
DuplicatePaths(k) ==
    \E r1, r2 \in rows :
        /\ r1.project_id = k /\ r2.project_id = k
        /\ r1.id # r2.id
        /\ r1.path = r2.path

\* Request p deleted the rows of the project after its rival q had deleted
\* them and before q committed what it staged.
Overlapped(p, q) ==
    /\ p # q
    /\ loc[p].project_id = loc[q].project_id
    /\ q \in hist[p].deletedWhile

\* C20: nothing serializes two imports of one project.  The project has
\* File rows with duplicate paths only when the delete of one import fell
\* between the delete and the commit of the other, and whenever that
\* happened and both ended with a success summary the project holds the
\* rows of both; a stale-clone removal that ran while the rival was walking
\* left the rival without its clone directory.
C20_SameProjectImportsRace ==
    /\ [](\A k \in ProjectIds :
            DuplicatePaths(k) =>
                \E p, q \in Procs : loc[p].project_id = k /\ Overlapped(p, q))
    /\ [](\A p, q \in Procs :
            (Overlapped(p, q) /\ loc[p].pc = "done" /\ loc[q].pc = "done"
             /\ loc[p].result = "ok" /\ loc[q].result = "ok") =>
                Cardinality(ProjectRows(p))
                    = loc[p].files_imported + loc[q].files_imported)
    /\ [][\A p \in Procs :
            (hist'[p].removedLive /\ ~hist[p].removedLive) =>
                /\ scratch'[loc[p].project_id] = Absent
                /\ \E q \in Procs \ {p} :
                      /\ loc[q].project_id = loc[p].project_id
                      /\ loc[q].pc = "walk" /\ loc'[q] = loc[q]]_vars

\* Both interleavings in one run: an import removed the clone directory
\* while its rival was walking it, the two deletes preceded both commits,
\* both imports ended with a success summary and the project holds the same
\* path twice.
C20_Witness ==
    \E p, q \in Procs :
        /\ Overlapped(p, q)
        /\ hist[p].removedLive \/ hist[q].removedLive
        /\ loc[p].pc = "done" /\ loc[p].result = "ok"
        /\ loc[q].pc = "done" /\ loc[q].result = "ok"
        /\ DuplicatePaths(loc[p].project_id)
        /\ Cardinality(ProjectRows(p)) = 2

=============================================================================
